---------------------------- MODULE Spec2Model ----------------------------
(***************************************************************************)
(* Model of hobbit/actions/__init__.py: ThreadAction.get_pages (a thread   *)
(* pool fetching pages, drained by one generator loop) and the             *)
(* CheckPageRepeat guard it feeds.                                         *)
(***************************************************************************)
EXTENDS Integers, Sequences, FiniteSets, TLC

VARIABLES
    kwargs,          \* ThreadAction kwargs: <<>> (no max_workers key) or <<n>>
    max_workers,     \* self.max_workers
    urls,            \* the urls argument of get_pages
    outcome,         \* outcome[i]: what robber.get_region returns for urls[i], or Fail
    pc,              \* position of the generator body
    status,          \* status[i] of the future submitted for urls[i]
    processed,       \* futures as_completed has already handed to the loop
    yielded,         \* pairs yielded so far, in order
    error,           \* exception delivered to the consumer, or NoError
    last_page_text,  \* CheckPageRepeat.__last_page_text
    repeat_page,     \* CheckPageRepeat.__repeat_page
    check_break,     \* CheckPageRepeat.__check_break
    max_page_repeat, \* CheckPageRepeat.max_page_repeat
    repeat,          \* value returned by the latest CheckPageRepeat.__call__
    hist,            \* bodies passed to CheckPageRepeat.__call__ so far (history)
    hash_of,         \* the interpreter's hash(): a table from values to integers
    action,          \* an Action: [args |-> self.args, kwargs |-> self.kwargs]
    built,           \* the same Action as it was first built
    hash_value,      \* <<[self, value]>>: the latest Action.__hash__ call and its
                     \* result; <<>> before the first call
    kwargs_hash      \* <<[kwargs, value]>>: the latest _get_kwargs_hash(self.kwargs)

vars == <<kwargs, max_workers, urls, outcome, pc, status, processed, yielded,
          error, last_page_text, repeat_page, check_break, max_page_repeat,
          repeat, hist, hash_of, action, built, hash_value, kwargs_hash>>

guardVars == <<last_page_text, repeat_page, check_break, max_page_repeat, repeat, hist>>
poolVars == <<kwargs, max_workers, urls, outcome, pc, status, processed, yielded, error>>
hashVars == <<hash_of, action, built, hash_value, kwargs_hash>>

(***************************************************************************)
(* Bounds of the model.                                                    *)
(***************************************************************************)
MaxUrls == 3
MaxWorkers == 2
MaxCalls == 5
MaxThreshold == 3

(***************************************************************************)
(* Program constants.                                                      *)
(***************************************************************************)
DefaultMaxWorkers == 5
DefaultMaxPageRepeat == 3

None == "None"
Fail == "FAIL"
NoError == "NoError"

URLS == {"u1", "u2"}
Bodies == {"A", "B", "C"}
GuardBodies == {"A", "B"}

(***************************************************************************)
(* ThreadAction.__init__: kwargs.get('max_workers') or 5.                  *)
(***************************************************************************)
MaxWorkersOf(kw) ==
    IF kw = <<>> THEN DefaultMaxWorkers
    ELSE IF kw[1] = 0 THEN DefaultMaxWorkers
    ELSE kw[1]

(***************************************************************************)
(* BeautifulSoup(page_text, 'html.parser'): the parsed tree of a body.     *)
(***************************************************************************)
BeautifulSoup(page_text) == <<"soup", page_text>>

(***************************************************************************)
(* CheckPageRepeat.__call__, line by line.                                 *)
(***************************************************************************)
IsRepeat(page_text, last) == page_text = last

\* mutant: a new body leaves the streak as it was
NewRepeatPageNoReset(page_text, last, streak) ==
    IF IsRepeat(page_text, last) THEN streak + 1 ELSE streak

NewRepeatPage(page_text, last, streak) ==
    IF IsRepeat(page_text, last) THEN streak + 1 ELSE 0

\* mutant: the new body is never stored
NewLastPageTextKeep(page_text, last) == last

NewLastPageText(page_text, last) ==
    IF IsRepeat(page_text, last) THEN last ELSE page_text

\* mutant: any repeat raises the flag
BreakTestAnyRepeat(streak, threshold) == streak > 0

\* line 138: the streak is compared with itself
BreakTest(streak, threshold) == streak > streak

NewCheckBreak(flag, streak, threshold) ==
    IF BreakTest(streak, threshold) THEN TRUE ELSE flag

GuardCall(page_text) ==
    /\ repeat' = IsRepeat(page_text, last_page_text)
    /\ repeat_page' = NewRepeatPage(page_text, last_page_text, repeat_page)
    /\ last_page_text' = NewLastPageText(page_text, last_page_text)
    /\ check_break' = NewCheckBreak(check_break,
                         NewRepeatPage(page_text, last_page_text, repeat_page),
                         max_page_repeat)
    /\ hist' = Append(hist, page_text)
    /\ UNCHANGED max_page_repeat

\* CheckPageRepeat.__init__(max_page_repeat)
GuardInit(threshold) ==
    /\ last_page_text = None
    /\ repeat_page = 0
    /\ check_break = FALSE
    /\ max_page_repeat = threshold
    /\ repeat = FALSE
    /\ hist = <<>>

(***************************************************************************)
(* get_pages.                                                              *)
(***************************************************************************)
Futures == 1..Len(urls)

Running == {f \in Futures : status[f] = "running"}
Pending == {f \in Futures : status[f] = "pending"}
Completed == {f \in Futures : status[f] = "done"}

\* mutant: every future is mapped to the first url
FutureSetUrlFirst(us, f) == us[1]

\* future_set[future]
FutureSetUrl(us, f) == us[f]

\* mutant: every completion is yielded
ShouldYieldAlways(rep) == TRUE

\* mutant: the test of line 93 without its "not"
ShouldYieldInverted(rep) == rep

\* line 93: if not check_page_repeat(page_text)
ShouldYield(rep) == ~rep

\* mutant: any repeat leaves the loop
ShouldBreakOnRepeat(rep, flag) == rep

\* lines 95-96: elif check_page_repeat.check_break: break
ShouldBreak(rep, flag) == rep /\ flag

\* mutant: the pool starts every queued call at once
WorkerFreeAlways(nrunning, limit) == TRUE

\* the pool runs a queued call only while fewer than max_workers are running
WorkerFree(nrunning, limit) == nrunning < limit

\* mutant: a failed fetch is taken for a page
ResultRaisesNever(out) == FALSE

\* line 91: future.result() re-raises what robber.get_region raised
ResultRaises(out) == out = Fail

\* lines 88-89: build the executor and submit one call per url.
\* ThreadPoolExecutor raises ValueError for max_workers <= 0.
Start ==
    /\ pc = "start"
    /\ IF max_workers <= 0
       THEN /\ pc' = "failed"
            /\ error' = "ValueError"
            /\ UNCHANGED status
       ELSE /\ pc' = "loop"
            /\ status' = [f \in Futures |-> "pending"]
            /\ UNCHANGED error
    /\ UNCHANGED <<kwargs, max_workers, urls, outcome, processed, yielded>>
    /\ UNCHANGED guardVars
    /\ UNCHANGED hashVars

\* a pool thread takes the oldest queued call and enters robber.get_region
WorkerTake ==
    /\ pc \in {"loop", "shutdown"}
    /\ Pending # {}
    /\ WorkerFree(Cardinality(Running), max_workers)
    /\ LET f == CHOOSE g \in Pending : \A h \in Pending : g <= h
       IN status' = [status EXCEPT ![f] = "running"]
    /\ UNCHANGED <<kwargs, max_workers, urls, outcome, pc, processed, yielded, error>>
    /\ UNCHANGED guardVars
    /\ UNCHANGED hashVars

\* mutant: the pool thread itself feeds the body it fetched to the guard
WorkerFinishChecksRepeat ==
    /\ pc \in {"loop", "shutdown"}
    /\ \E f \in Running :
          /\ status' = [status EXCEPT ![f] = "done"]
          /\ IF outcome[f] = Fail THEN UNCHANGED guardVars ELSE GuardCall(outcome[f])
    /\ UNCHANGED <<kwargs, max_workers, urls, outcome, pc, processed, yielded, error>>
    /\ UNCHANGED hashVars

\* robber.get_region returns (or raises) in a pool thread
WorkerFinish ==
    /\ pc \in {"loop", "shutdown"}
    /\ \E f \in Running : status' = [status EXCEPT ![f] = "done"]
    /\ UNCHANGED <<kwargs, max_workers, urls, outcome, pc, processed, yielded, error>>
    /\ UNCHANGED guardVars
    /\ UNCHANGED hashVars

\* lines 90-96: one iteration of the loop over as_completed(future_set)
Process ==
    /\ pc = "loop"
    /\ \E f \in Completed \ processed :
        /\ processed' = processed \cup {f}
        /\ IF ResultRaises(outcome[f])
           THEN \* future.result() re-raises the worker's exception
                /\ pc' = "shutdown"
                /\ error' = "TransportFailure"
                /\ UNCHANGED yielded
                /\ UNCHANGED guardVars
           ELSE /\ GuardCall(outcome[f])
                /\ yielded' =
                     IF ShouldYield(IsRepeat(outcome[f], last_page_text))
                     THEN Append(yielded,
                                 [url |-> FutureSetUrl(urls, f),
                                  page |-> BeautifulSoup(outcome[f]),
                                  future |-> f])
                     ELSE yielded
                /\ pc' =
                     IF /\ ~ShouldYield(IsRepeat(outcome[f], last_page_text))
                        /\ ShouldBreak(IsRepeat(outcome[f], last_page_text),
                                       NewCheckBreak(check_break,
                                          NewRepeatPage(outcome[f], last_page_text, repeat_page),
                                          max_page_repeat))
                     THEN "shutdown"
                     ELSE "loop"
                /\ UNCHANGED error
    /\ UNCHANGED <<kwargs, max_workers, urls, outcome, status>>
    /\ UNCHANGED hashVars

\* mutant: the loop ends as soon as no finished future is waiting
LoopEndEarly ==
    /\ pc = "loop"
    /\ processed = Completed
    /\ pc' = "shutdown"
    /\ UNCHANGED <<kwargs, max_workers, urls, outcome, status, processed, yielded, error>>
    /\ UNCHANGED guardVars
    /\ UNCHANGED hashVars

\* as_completed is exhausted: the for loop ends and the with block is left
LoopEnd ==
    /\ pc = "loop"
    /\ processed = Futures
    /\ pc' = "shutdown"
    /\ UNCHANGED <<kwargs, max_workers, urls, outcome, status, processed, yielded, error>>
    /\ UNCHANGED guardVars
    /\ UNCHANGED hashVars

\* executor.__exit__: shutdown(wait=True) returns once every submitted call has run
ExitPool ==
    /\ pc = "shutdown"
    /\ Completed = Futures
    /\ pc' = IF error = NoError THEN "done" ELSE "failed"
    /\ UNCHANGED <<kwargs, max_workers, urls, outcome, status, processed, yielded, error>>
    /\ UNCHANGED guardVars
    /\ UNCHANGED hashVars

\* a direct caller of CheckPageRepeat.__call__
Call ==
    /\ pc = "guard"
    /\ Len(hist) < MaxCalls
    /\ \E b \in GuardBodies : GuardCall(b)
    /\ UNCHANGED poolVars
    /\ UNCHANGED hashVars


(***************************************************************************)
(* Action.__hash__ and Action._get_kwargs_hash.                            *)
(*                                                                         *)
(* A keyword mapping is the sequence of its items in insertion order, each *)
(* item [key, value]; a value is a scalar or a nested mapping.             *)
(***************************************************************************)
Scalar(v) == [tag |-> "scalar", val |-> v]
Mapping(items) == [tag |-> "map", items |-> items]

Terms == {"a", "div"}
TopKeys == {"attrs", "id"}
NestedKeys == {"class", "id"}
ScalarValues == {"x", "y"}
Atoms == {""} \cup Terms \cup TopKeys \cup NestedKeys \cup ScalarValues

\* operator.xor on non-negative integers, bit by bit
RECURSIVE Xor(_, _)
Xor(a, b) ==
    IF a = 0 THEN b
    ELSE IF b = 0 THEN a
    ELSE ((a + b) % 2) + 2 * Xor(a \div 2, b \div 2)

\* hash(value)
Hash(v) == hash_of[v]

\* mutant: "=" written for "^=": the latest item replaces the accumulator
AccumulateAssign(acc, h) == h

\* line 54: kwargs_hash ^= ...
Accumulate(acc, h) == Xor(acc, h)

\* lines 51-56; the conditional expression of lines 54-55 is
\*   (self._get_kwargs_hash(value)) if isinstance(...) else (hash(key) ^ hash(value))
RECURSIVE GetKwargsHash(_)
GetKwargsHash(kw) ==
    IF kw = <<>> THEN Hash("")
    ELSE LET n == Len(kw)
             item == kw[n]
             h == IF item.value.tag = "map"
                  THEN GetKwargsHash(item.value.items)
                  ELSE Xor(Hash(item.key), Hash(item.value.val))
         IN Accumulate(GetKwargsHash(SubSeq(kw, 1, n - 1)), h)

\* reduce(xor, map(hash, args))
RECURSIVE ReduceXor(_)
ReduceXor(args) ==
    IF Len(args) = 1 THEN Hash(args[1])
    ELSE Xor(ReduceXor(SubSeq(args, 1, Len(args) - 1)), Hash(args[Len(args)]))

\* line 48
ArgsHash(args) == IF args # <<>> THEN ReduceXor(args) ELSE Hash("")

\* lines 47-49
ActionHash(a) == Xor(GetKwargsHash(a.kwargs), ArgsHash(a.args))

\* hash(action) is called
HashAction ==
    /\ pc = "hash"
    /\ hash_value' = <<[self |-> action, value |-> ActionHash(action)]>>
    /\ kwargs_hash' = <<[kwargs |-> action.kwargs,
                         value |-> GetKwargsHash(action.kwargs)]>>
    /\ UNCHANGED <<hash_of, action, built>>
    /\ UNCHANGED poolVars
    /\ UNCHANGED guardVars

Swap(seq, i) ==
    [k \in 1..Len(seq) |-> IF k = i THEN seq[i + 1]
                           ELSE IF k = i + 1 THEN seq[i]
                           ELSE seq[k]]

RebuildStep(newAction) ==
    /\ pc = "hash"
    /\ action' = newAction
    /\ UNCHANGED <<hash_of, built, hash_value, kwargs_hash>>
    /\ UNCHANGED poolVars
    /\ UNCHANGED guardVars

\* the caller builds the Action again with two positional args exchanged
ReorderArgs ==
    \E i \in 1..(Len(action.args) - 1) :
        /\ action.args[i] # action.args[i + 1]
        /\ RebuildStep([action EXCEPT !.args = Swap(action.args, i)])

\* ... with two keywords passed in the other order
ReorderKwargs ==
    \E i \in 1..(Len(action.kwargs) - 1) :
        RebuildStep([action EXCEPT !.kwargs = Swap(action.kwargs, i)])

\* ... with the keys of a nested mapping inserted in the other order
ReorderNested ==
    \E j \in 1..Len(action.kwargs) :
        /\ action.kwargs[j].value.tag = "map"
        /\ \E i \in 1..(Len(action.kwargs[j].value.items) - 1) :
              RebuildStep([action EXCEPT !.kwargs[j].value.items =
                              Swap(action.kwargs[j].value.items, i)])

(***************************************************************************)
(* Initial states.                                                         *)
(***************************************************************************)
SeqsUpTo(S, n) == UNION {[1..k -> S] : k \in 0..n}

\* the sequences of items over these keys and values, no key twice
MapsOver(keys, values) ==
    {m \in SeqsUpTo([key : keys, value : values], Cardinality(keys)) :
        \A i, j \in 1..Len(m) : i # j => m[i].key # m[j].key}

NestedMaps == MapsOver(NestedKeys, {Scalar(v) : v \in ScalarValues})

KwargsMaps ==
    MapsOver(TopKeys, {Scalar(v) : v \in ScalarValues}
                         \cup {Mapping(m) : m \in NestedMaps})

ArgsLists == SeqsUpTo(Terms, Cardinality(Terms))

Code(v) ==
    CASE v = "" -> 0 [] v = "a" -> 1 [] v = "div" -> 2 [] v = "attrs" -> 3
      [] v = "class" -> 4 [] v = "id" -> 5 [] v = "x" -> 6 [] v = "y" -> 7

\* hash() is fixed for one interpreter run and differs between runs
HashTables ==
    {[v \in Atoms |-> (m * Code(v) + c) % 8] : m \in {1, 3}, c \in {0, 5}}

Ascending(seq) == \A i \in 1..(Len(seq) - 1) : Code(seq[i]) <= Code(seq[i + 1])

Keys(items) == [i \in 1..Len(items) |-> items[i].key]

\* the order an Action is first built in; every other order of the same args
\* and keys is reached from it by ReorderArgs, ReorderKwargs, ReorderNested
InFirstOrder(a) ==
    /\ Ascending(a.args)
    /\ Ascending(Keys(a.kwargs))
    /\ \A j \in 1..Len(a.kwargs) :
          a.kwargs[j].value.tag = "map" => Ascending(Keys(a.kwargs[j].value.items))

\* no Action is being hashed in a get_pages or guard run
IdleHash ==
    /\ hash_of = [v \in Atoms |-> Code(v)]
    /\ action = [args |-> <<>>, kwargs |-> <<>>]
    /\ built = action
    /\ hash_value = <<>>
    /\ kwargs_hash = <<>>

KwargsValues == {<<>>} \cup {<<n>> : n \in (-1)..MaxWorkers}

\* get_pages entered with these arguments; line 87 has built the guard
InitRun(urlLists, outcomes, kws) ==
    /\ kwargs \in kws
    /\ max_workers = MaxWorkersOf(kwargs)
    /\ urls \in urlLists
    /\ outcome \in [1..Len(urls) -> outcomes]
    /\ pc = "start"
    /\ status = [f \in 1..Len(urls) |-> "unsubmitted"]
    /\ processed = {}
    /\ yielded = <<>>
    /\ error = NoError
    /\ GuardInit(DefaultMaxPageRepeat)
    /\ IdleHash

\* url lists up to MaxUrls long, with or without a repeated url; the two url
\* names are interchangeable, so a list starts with "u1"
UrlLists == {us \in SeqsUpTo(URLS, MaxUrls) : us = <<>> \/ us[1] = "u1"}

Init == InitRun(UrlLists, Bodies \cup {Fail}, KwargsValues)

Next ==
    \/ Start
    \/ WorkerTake
    \/ WorkerFinish
    \/ Process
    \/ LoopEnd
    \/ ExitPool

Spec == Init /\ [][Next]_vars

\* a CheckPageRepeat used on its own, with any threshold
InitGuard ==
    /\ kwargs = <<>>
    /\ max_workers = MaxWorkersOf(kwargs)
    /\ urls = <<>>
    /\ outcome = <<>>
    /\ pc = "guard"
    /\ status = <<>>
    /\ processed = {}
    /\ yielded = <<>>
    /\ error = NoError
    /\ \E t \in 0..MaxThreshold : GuardInit(t)
    /\ IdleHash

NextGuard == Call

SpecGuard == InitGuard /\ [][NextGuard]_vars


(***************************************************************************)
(* The early-stop scenario: ten urls, two of them answered with body X and *)
(* the other eight with body SAME, default guard threshold.                *)
(***************************************************************************)
EarlyStopUrls == <<"p1", "p2", "p3", "p4", "p5", "p6", "p7", "p8", "p9", "p10">>

\* the worker count and the places of the two X answers: the first two urls
\* (two workers), the last two, and the first and the last (one worker)
EarlyStopCases == {<<2, {1, 2}>>, <<1, {9, 10}>>, <<1, {1, 10}>>}

EarlyStopOutcome(xs) ==
    [i \in 1..Len(EarlyStopUrls) |-> IF i \in xs THEN "X" ELSE "SAME"]

InitEarlyStop ==
    /\ \E c \in EarlyStopCases :
          /\ kwargs = <<c[1]>>
          /\ outcome = EarlyStopOutcome(c[2])
    /\ max_workers = MaxWorkersOf(kwargs)
    /\ urls = EarlyStopUrls
    /\ pc = "start"
    /\ status = [f \in 1..Len(urls) |-> "unsubmitted"]
    /\ processed = {}
    /\ yielded = <<>>
    /\ error = NoError
    /\ GuardInit(DefaultMaxPageRepeat)
    /\ IdleHash

SpecEarlyStop == InitEarlyStop /\ [][Next]_vars


(***************************************************************************)
(* An Action built from any args and kwargs, rebuilt in other orders and   *)
(* hashed.                                                                 *)
(***************************************************************************)
InitHash ==
    /\ kwargs = <<>>
    /\ max_workers = MaxWorkersOf(kwargs)
    /\ urls = <<>>
    /\ outcome = <<>>
    /\ pc = "hash"
    /\ status = <<>>
    /\ processed = {}
    /\ yielded = <<>>
    /\ error = NoError
    /\ GuardInit(DefaultMaxPageRepeat)
    /\ hash_of \in HashTables
    /\ action \in {a \in [args : ArgsLists, kwargs : KwargsMaps] : InFirstOrder(a)}
    /\ built = action
    /\ hash_value = <<>>
    /\ kwargs_hash = <<>>

NextHash ==
    \/ HashAction
    \/ ReorderArgs
    \/ ReorderKwargs
    \/ ReorderNested

SpecHash == InitHash /\ [][NextHash]_vars

(***************************************************************************)
(* get_pages when every pool thread keeps running, every fetch returns and *)
(* the consumer keeps pulling from the generator.                          *)
(***************************************************************************)
FairUrlLists ==
    {[i \in 1..n |-> IF i % 2 = 1 THEN "u1" ELSE "u2"] : n \in 0..MaxUrls}

InitFair == InitRun(FairUrlLists, {"A", "B", Fail}, KwargsValues)

Fairness ==
    /\ WF_vars(Start)
    /\ WF_vars(WorkerTake)
    /\ WF_vars(WorkerFinish)
    /\ WF_vars(Process)
    /\ WF_vars(LoopEnd)
    /\ WF_vars(ExitPool)

SpecFair == InitFair /\ [][Next]_vars /\ Fairness

(***************************************************************************)
(* What the history of guard calls says, computed from hist alone.         *)
(***************************************************************************)
MaxOf(S) == CHOOSE m \in S : \A x \in S : x <= m

\* length of the longest run of identical bodies that ends at the last call
RunLen(h) ==
    IF h = <<>> THEN 0
    ELSE Len(h) - MaxOf({0} \cup {k \in 1..Len(h) : h[k] # h[Len(h)]})

\* repeats in a row counted at call k: the run ending there, minus its first body
StreakAt(h, k) == RunLen(SubSeq(h, 1, k)) - 1

\* some call so far left more than t repeats in a row
ExceededAt(h, t) == \E k \in 1..Len(h) : StreakAt(h, k) > t

\* no two bodies in a row are equal
Alternating(h) == \A k \in 1..(Len(h) - 1) : h[k] # h[k + 1]

(***************************************************************************)
(* Claims about CheckPageRepeat (SpecGuard) and about get_pages.           *)
(***************************************************************************)

\* C1: in get_pages, once the consecutive identical bodies have exceeded the
\* threshold (the stop flag is to be true from then on), the sequence has
\* ended: the loop processes no further completion and yields no further pair.
C1_StopEndsSequence ==
    ExceededAt(hist, max_page_repeat) => pc # "loop"

\* C2: right after any call that leaves the repeat streak above the threshold,
\* check_break is true.
C2_StreakOverThresholdSetsFlag ==
    (hist # <<>> /\ repeat_page > max_page_repeat) => check_break

\* C3: a fresh guard with threshold 3 fed A, A, A, A, B has check_break true
\* after the fourth A, and still true after the B.
C3_FourRepeatsThenNew ==
    (/\ max_page_repeat = 3
     /\ hist \in {<<"A", "A", "A", "A">>, <<"A", "A", "A", "A", "B">>})
        => check_break

\* C4: check_break is true only if the streak exceeded the threshold at some
\* call so far; it never goes from true back to false; a sequence A, B, A, B
\* with threshold 3 (any sequence without two equal bodies in a row) never
\* sets it.
C4_FlagOnlyAfterExceedNeverReset ==
    /\ [](check_break => ExceededAt(hist, max_page_repeat))
    /\ [][check_break => check_break']_vars
    /\ []((Alternating(hist) /\ max_page_repeat = 3) => ~check_break)

C4_Witness ==
    /\ pc = "guard"
    /\ max_page_repeat = 3
    /\ hist = <<"A", "B", "A", "B">>
    /\ ~check_break
    /\ ~ExceededAt(hist, max_page_repeat)

\* C5: a call with body b returns true exactly when b equals the stored last
\* body; then the streak grows by one and the last body stays; otherwise
\* (the first call of a fresh guard included) the streak becomes 0, b is
\* stored as the last body and the call returns false.
C5_CallContract ==
    [][hist' # hist =>
        LET b == hist'[Len(hist')] IN
        /\ hist' = Append(hist, b)
        /\ repeat' = (b = last_page_text)
        /\ (b = last_page_text =>
               /\ repeat_page' = repeat_page + 1
               /\ last_page_text' = last_page_text)
        /\ (b # last_page_text =>
               /\ repeat_page' = 0
               /\ last_page_text' = b
               /\ repeat' = FALSE)
        /\ (hist = <<>> => (repeat' = FALSE /\ repeat_page' = 0))]_vars

C5_Witness ==
    /\ pc = "guard"
    /\ hist = <<"A", "A", "A", "B">>
    /\ repeat = FALSE
    /\ repeat_page = 0
    /\ last_page_text = "B"


(***************************************************************************)
(* Claims about the pairs get_pages yields.                                *)
(***************************************************************************)
Count(seq, x) == Cardinality({k \in 1..Len(seq) : seq[k] = x})

YieldedUrls == [k \in 1..Len(yielded) |-> yielded[k].url]

AllFetchesSucceed == \A f \in Futures : outcome[f] # Fail

BodiesDistinct == \A f, g \in Futures : f # g => outcome[f] # outcome[g]

\* C6: ten urls, two answered X and eight answered SAME, threshold 3: at most
\* 2 + 3 = 5 pairs are yielded, and fewer than ten, whatever the order in
\* which the completions are processed.
C6_EarlyStopYieldBound ==
    /\ Len(yielded) <= 2 + max_page_repeat
    /\ Len(yielded) < Len(urls)

C6_Witness ==
    /\ Len(urls) = 10
    /\ max_page_repeat = 3
    /\ Cardinality({f \in Futures : outcome[f] = "X"}) = 2
    /\ pc = "done"
    /\ Len(yielded) = 5

\* C7: when every fetch succeeds and all bodies are pairwise distinct, a run
\* (with a worker count the pool accepts) ends normally having yielded exactly
\* len(urls) pairs, one for each submitted url and none twice.
C7_DistinctBodiesYieldAll ==
    (AllFetchesSucceed /\ BodiesDistinct /\ max_workers > 0) =>
        /\ pc # "failed"
        /\ \A j, k \in 1..Len(yielded) :
              j # k => yielded[j].future # yielded[k].future
        /\ \A k \in 1..Len(yielded) :
              /\ yielded[k].future \in processed
              /\ yielded[k].url = urls[yielded[k].future]
        /\ Len(yielded) = Cardinality(processed)
        /\ pc = "done" =>
              /\ Len(yielded) = Len(urls)
              /\ {yielded[k].future : k \in 1..Len(yielded)} = Futures

C7_Witness ==
    /\ AllFetchesSucceed
    /\ BodiesDistinct
    /\ Len(urls) = 3
    /\ pc = "done"
    /\ Len(yielded) = 3
    /\ yielded[1].future = 3

\* C8: the number of robber.get_region calls started and not yet returned is
\* never above max_workers (none is ever started when the pool refuses
\* max_workers), however many urls were submitted.
C8_InFlightBounded ==
    /\ max_workers > 0 => Cardinality(Running) <= max_workers
    /\ max_workers <= 0 => Running = {}

C8_Witness ==
    /\ Cardinality(Running) = max_workers
    /\ Pending # {}
    /\ Len(urls) > max_workers

\* C9 as stated: every yielded url is an input url, no url value appears in
\* two yielded pairs, and at most len(urls) pairs are yielded.
C9_NoUrlValueTwice ==
    /\ \A k \in 1..Len(yielded) : \E i \in 1..Len(urls) : yielded[k].url = urls[i]
    /\ \A j, k \in 1..Len(yielded) : j # k => yielded[j].url # yielded[k].url
    /\ Len(yielded) <= Len(urls)

\* C9 amended: every yielded url is an input url, no submitted fetch is
\* yielded twice, a url value appears in at most as many yielded pairs as it
\* has occurrences in the input list, and at most len(urls) pairs are yielded.
C9_NoOccurrenceTwice ==
    /\ \A k \in 1..Len(yielded) : \E i \in 1..Len(urls) : yielded[k].url = urls[i]
    /\ \A j, k \in 1..Len(yielded) :
          j # k => yielded[j].future # yielded[k].future
    /\ \A u \in URLS : Count(YieldedUrls, u) <= Count(urls, u)
    /\ Len(yielded) <= Len(urls)

C9_Witness ==
    /\ Len(yielded) = 2
    /\ yielded[1].url = yielded[2].url
    /\ Count(urls, yielded[1].url) = 2

\* C10: a processed completion is yielded exactly when the guard answered
\* "not a repeat"; a repeat that leaves the stop flag down is dropped and the
\* loop goes on, so a run that ends normally with the flag down has processed
\* every completion.
C10_YieldIffNotRepeat ==
    /\ [][hist' # hist =>
            /\ (yielded' # yielded) <=> ~repeat'
            /\ ~repeat' =>
                  \E f \in processed' \ processed :
                      yielded' = Append(yielded,
                                        [url |-> urls[f],
                                         page |-> BeautifulSoup(outcome[f]),
                                         future |-> f])
            /\ (repeat' /\ ~check_break') =>
                  (yielded' = yielded /\ pc' = "loop")]_vars
    /\ []((pc = "done" /\ ~check_break) => processed = Futures)

C10_Witness ==
    /\ hist = <<"A", "A", "B">>
    /\ Len(yielded) = 2
    /\ yielded[2].page = BeautifulSoup("B")
    /\ ~check_break
    /\ pc = "done"


(***************************************************************************)
(* Claims about Action.__hash__ (SpecHash).                                *)
(***************************************************************************)
\* the mapping an item sequence stands for, insertion order forgotten
RECURSIVE CanonMap(_)
CanonMap(items) ==
    {<<items[i].key,
       IF items[i].value.tag = "map"
       THEN <<"map", CanonMap(items[i].value.items)>>
       ELSE <<"scalar", items[i].value.val>>>> : i \in 1..Len(items)}

ArgsBag(args) ==
    [t \in Terms |-> Cardinality({k \in 1..Len(args) : args[k] = t})]

\* same multiset of positional args, recursively equal keyword mapping
SameAction(a, b) ==
    /\ ArgsBag(a.args) = ArgsBag(b.args)
    /\ CanonMap(a.kwargs) = CanonMap(b.kwargs)

\* the fold the specification describes: the key is mixed in for every item
RECURSIVE RefKwargsHash(_)
RefKwargsHash(kw) ==
    IF kw = <<>> THEN Hash("")
    ELSE LET n == Len(kw)
             item == kw[n]
             inner == IF item.value.tag = "map"
                      THEN RefKwargsHash(item.value.items)
                      ELSE Hash(item.value.val)
         IN Xor(RefKwargsHash(SubSeq(kw, 1, n - 1)), Xor(Hash(item.key), inner))

\* C14: an Action with the same multiset of args and the same (recursively
\* equal) keyword mapping as another hashes to the same value, whatever the
\* order of the args and of the keys at every nesting level.
C14_HashOrderIndependent ==
    (hash_value # <<>> /\ SameAction(hash_value[1].self, built)) =>
        hash_value[1].value = ActionHash(built)

C14_Witness ==
    /\ hash_value # <<>>
    /\ SameAction(hash_value[1].self, built)
    /\ Len(built.args) = 2
    /\ hash_value[1].self.args # built.args
    /\ Len(built.kwargs) = 2
    /\ hash_value[1].self.kwargs[1].key # built.kwargs[1].key
    /\ \E j \in 1..2 :
          /\ built.kwargs[j].value.tag = "map"
          /\ Len(built.kwargs[j].value.items) = 2
          /\ \E i \in 1..2 :
                /\ hash_value[1].self.kwargs[i].key = built.kwargs[j].key
                /\ hash_value[1].self.kwargs[i].value.items[1].key
                      # built.kwargs[j].value.items[1].key

\* C15: _get_kwargs_hash equals the reference fold: hash('') XOR, for each
\* item, hash(key) XOR innerHash(value), the key of a nested mapping included.
C15_KwargsHashIsReferenceFold ==
    kwargs_hash # <<>> =>
        kwargs_hash[1].value = RefKwargsHash(kwargs_hash[1].kwargs)


(***************************************************************************)
(* Claims about failures, configuration, shutdown and the guard's owner.   *)
(***************************************************************************)
\* C11: a failed fetch reaches the consumer as an error at the step that
\* processes its completion (it is neither skipped nor fed to the guard);
\* pairs yielded before stay yielded, none is yielded after, and the run then
\* ends as failed; a run that ends normally has met no failed completion and
\* reports no error.
C11_FailureSurfaces ==
    /\ [][\A f \in processed' \ processed :
             outcome[f] = Fail =>
                 /\ error' = "TransportFailure"
                 /\ pc' = "shutdown"
                 /\ yielded' = yielded
                 /\ hist' = hist]_vars
    /\ [][error # NoError =>
             /\ error' = error
             /\ yielded' = yielded
             /\ pc' \in {"shutdown", "failed"}]_vars
    /\ [][/\ Len(yielded') >= Len(yielded)
          /\ SubSeq(yielded', 1, Len(yielded)) = yielded]_vars
    /\ [](pc = "failed" <=> (error # NoError /\ pc # "shutdown"))
    /\ [](pc = "done" => \A f \in processed : outcome[f] # Fail)
    /\ [](error = "TransportFailure" => \E f \in processed : outcome[f] = Fail)

C11_Witness ==
    /\ pc = "failed"
    /\ error = "TransportFailure"
    /\ Len(yielded) = 1
    /\ Cardinality(processed) = 2
    /\ Len(urls) = 3

\* C12: with a caller-supplied max_workers of zero or less the run fails with
\* a configuration error before any fetch is dispatched: no fetch is ever
\* started and the run never ends normally.
C12_NonPositiveFailsFast ==
    (kwargs # <<>> /\ kwargs[1] <= 0) =>
        /\ Running = {}
        /\ Completed = {}
        /\ pc # "done"

\* C13: after an early end (a failure was raised or the stop flag was seen)
\* the generator is not held back by unfinished fetches: it is never waiting
\* in the pool's shutdown while a dispatched fetch has not completed.
C13_EarlyEndDoesNotWait ==
    (pc = "shutdown" /\ (error # NoError \/ check_break)) => Completed = Futures

\* C16: the guard is read and updated only by a step of the loop that drains
\* completions, one call per step; no step of a pool thread touches it.
C16_GuardOnlyInConsumerLoop ==
    [][guardVars' # guardVars =>
          /\ pc = "loop"
          /\ status' = status
          /\ Cardinality(processed' \ processed) = 1
          /\ Len(hist') = Len(hist) + 1]_vars

C16_Witness ==
    /\ Len(hist) = 2
    /\ Running # {}
    /\ pc = "loop"

\* C17: if every dispatched fetch returns and the consumer keeps pulling, the
\* run ends; it ends normally when no fetch fails, and a normal end comes only
\* after every url's completion has been processed (the stop flag is down).
C17_RunEndsAfterAllProcessed ==
    /\ <>(pc \in {"done", "failed"})
    /\ (AllFetchesSucceed /\ max_workers > 0) => <>(pc = "done")
    /\ []((pc \in {"shutdown", "done"} /\ error = NoError /\ ~check_break)
             => processed = Futures)

C17_Witness ==
    /\ pc = "done"
    /\ ~check_break
    /\ Len(urls) = 3
    /\ processed = Futures
    /\ Len(yielded) = 1

\* C18: after every call the streak is the length of the run of identical
\* bodies ending at the latest call, minus one, the stored last body is the
\* latest body, and the streak is never negative.
C18_StreakIsRunLength ==
    /\ repeat_page >= 0
    /\ hist = <<>> => (repeat_page = 0 /\ last_page_text = None)
    /\ hist # <<>> =>
          /\ repeat_page = RunLen(hist) - 1
          /\ last_page_text = hist[Len(hist)]

C18_Witness ==
    /\ pc = "guard"
    /\ hist = <<"A", "B", "B", "B">>
    /\ repeat_page = 2
    /\ last_page_text = "B"

\* C19: two pairs yielded one directly after the other come from fetches
\* with different bodies.
C19_ConsecutiveYieldsDiffer ==
    \A k \in 1..(Len(yielded) - 1) :
        /\ outcome[yielded[k].future] # outcome[yielded[k + 1].future]
        /\ yielded[k].page # yielded[k + 1].page

C19_Witness ==
    /\ Len(yielded) = 3
    /\ yielded[1].page = yielded[3].page
    /\ yielded[1].page # yielded[2].page

\* C20: every yielded pair carries the url its fetch was submitted for and
\* the page parsed from the body that same fetch returned, also when the url
\* occurs several times in the input.
C20_PairMatchesFetch ==
    \A k \in 1..Len(yielded) :
        /\ yielded[k].future \in Futures
        /\ status[yielded[k].future] = "done"
        /\ yielded[k].url = urls[yielded[k].future]
        /\ yielded[k].page = BeautifulSoup(outcome[yielded[k].future])

C20_Witness ==
    /\ Len(urls) = 3
    /\ urls[1] = urls[3]
    /\ urls[1] # urls[2]
    /\ Len(yielded) = 3
    /\ yielded[1].future = 3
    /\ yielded[2].future = 2
    /\ yielded[3].future = 1

=============================================================================
